---- MODULE Spec2Model ----
(***************************************************************************)
(* A model of torch_sparse/storage.py: the SparseStorage class, its        *)
(* constructor (normalizer), the six lazily cached derived arrays, the     *)
(* process-wide cache flag with its no_cache guard, fill/clear of the      *)
(* cache and coalesce.                                                     *)
(*                                                                         *)
(* Conventions.  A 1-D tensor is a sequence of integers; the elements are  *)
(* the tensor's own (0-based) numbers, the sequence is indexed from 1.     *)
(* An optional value (a Python value that may be None) is None == <<>> or  *)
(* Some(x) == <<x>>.  A call that may raise returns [ok |-> TRUE, ...] or  *)
(* Raise(kind).                                                            *)
(*                                                                         *)
(* Library calls are modelled by what the library does: Tensor.argsort as  *)
(* torch's CPU sort, which is deterministic and stable; bool(tensor) as    *)
(* raising unless the tensor has exactly one element; torch_scatter's      *)
(* segment_csr(src, indptr) as the sums of src over the ranges             *)
(* indptr[i] .. indptr[i+1].  dtype and device checks are left out: every  *)
(* tensor is an int64 tensor on one device.                                *)
(***************************************************************************)
EXTENDS Integers, Sequences, FiniteSets, TLC

VARIABLES
    enabled,    \* __cache__['enabled'], the process-wide flag
    args,       \* the arguments of the constructor call under study
    obj,        \* the SparseStorage instance under study (NoObj before construction)
    res,        \* what the last call returned (NoRes: nothing to record)
    out,        \* results of the pure operations applied to obj, oldest first
    twin,       \* a copy of obj operated with the cache flag disabled throughout
    prev,       \* no_cache guard objects: guard -> its attribute self.prev
    stack,      \* the no_cache scopes entered and not yet left, innermost first
    saved,      \* history: the flag's value just before each entry on stack
    before,     \* history: obj as it was just before the last call on it
    pc          \* two-thread runs: thread -> where it is in its no_cache scope

vars == <<enabled, args, obj, res, out, twin, prev, stack, saved, before, pc>>

-----------------------------------------------------------------------------
(* Bounds and input sets                                                   *)

MaxNnz == 3
MaxArgs == 1
MaxDepth == 3
NumGuards == 2

\* sparse_size values the inputs are drawn from
Shapes == {<<1, 1>>, <<2, 2>>, <<2, 3>>}

\* the entries of value arrays are drawn from this set
Values == 0 .. 3

-----------------------------------------------------------------------------
(* Optional values, results, small tensor helpers                          *)

None == <<>>
Some(x) == <<x>>
IsNone(o) == o = None
The(o) == o[1]

Raise(kind) == [ok |-> FALSE, err |-> kind]

Range(s) == {s[i] : i \in 1 .. Len(s)}

RECURSIVE Sum(_)
Sum(s) == IF s = <<>> THEN 0 ELSE s[1] + Sum(Tail(s))

\* s[:-1]
DropLast(s) == SubSeq(s, 1, Len(s) - 1)

\* t[perm] for a 0-based index tensor perm
Take(t, perm) == [j \in 1 .. Len(perm) |-> t[perm[j] + 1]]

\* t[mask] for a boolean mask
RECURSIVE Select(_, _)
Select(t, mask) ==
    IF t = <<>> THEN <<>>
    ELSE (IF mask[1] THEN <<t[1]>> ELSE <<>>) \o Select(Tail(t), Tail(mask))

\* torch.cat([idx.new_full((1, ), first), idx[:-1]])
Shifted(idx, first) == <<first>> \o DropLast(idx)

\* The place element i takes in the stable ascending sort of keys (0-based).
Rank(keys, i) ==
    Cardinality({k \in 1 .. Len(keys) :
        keys[k] < keys[i] \/ (keys[k] = keys[i] /\ k < i)})

\* Tensor.argsort(): the permutation that sorts keys, ties in input order.
argsort(keys) ==
    [j \in 1 .. Len(keys) |->
        (CHOOSE i \in 1 .. Len(keys) : Rank(keys, i) = j - 1) - 1]

\* row * n + col, elementwise (n * index[0] + index[1])
LinearKey(n, a, b) == [i \in 1 .. Len(a) |-> n * a[i] + b[i]]

\* index.size(1): the number of entries
Nnz(o) == Len(o.index[2])

\* sparse_size(1) * row + col
KeysOf(index, num_cols) == LinearKey(num_cols, index[1], index[2])

\* index.max(dim=-1)[0] + 1 for one of the two rows of index
MaxPlusOne(s) == (CHOOSE m \in Range(s) : \A x \in Range(s) : x <= m) + 1

-----------------------------------------------------------------------------
(* SparseStorage.__init__                                                  *)

cache_keys == <<"rowcount", "rowptr", "colcount", "colptr", "csr2csc", "csc2csr">>

CacheKeySet == Range(cache_keys)

\* the instance the constructor's assignments self._x = x produce
Instance(index, value, sparse_size, rowcount, rowptr, colcount, colptr, csr2csc, csc2csr) ==
    [index |-> index, value |-> value, sparse_size |-> sparse_size,
     rowcount |-> rowcount, rowptr |-> rowptr, colcount |-> colcount,
     colptr |-> colptr, csr2csc |-> csr2csc, csc2csr |-> csc2csr]

\* the assertions of lines 80-121 (dtype and device are not modelled)
CtorAsserts(index, value, size, rowcount, rowptr, colcount, colptr, csr2csc, csc2csr) ==
    /\ Len(index) = 2
    /\ IsNone(value) \/ Len(The(value)) = Len(index[2])
    /\ IsNone(rowcount) \/ Len(The(rowcount)) = size[1]
    /\ IsNone(rowptr) \/ Len(The(rowptr)) - 1 = size[1]
    /\ IsNone(colcount) \/ Len(The(colcount)) = size[2]
    /\ IsNone(colptr) \/ Len(The(colptr)) - 1 = size[2]
    /\ IsNone(csr2csc) \/ Len(The(csr2csc)) = Len(index[2])
    /\ IsNone(csc2csr) \/ Len(The(csc2csr)) = Len(index[2])

\* a constructor that never sorts
NeedsSortNever(idx) == FALSE

\* (idx < torch.cat([idx.new_zeros(1), idx[:-1]], dim=0)).any()
NeedsSort(idx) == \E i \in 1 .. Len(idx) : idx[i] < Shifted(idx, 0)[i]

SortPermIdentity(idx) == [j \in 1 .. Len(idx) |-> j - 1]

\* perm = idx.argsort()
SortPerm(idx) == argsort(idx)

SparseStorage(index, value, sparse_size, rowcount, rowptr, colcount, colptr, csr2csc, csc2csr, is_sorted) ==
    IF Len(index) # 2
    THEN Raise("AssertionError")    \* index.dim() == 2 and index.size(0) == 2
    ELSE IF ~IsNone(value) /\ Len(The(value)) # Len(index[2])
    THEN Raise("AssertionError")    \* checked before sparse_size is derived
    ELSE IF IsNone(sparse_size) /\ Len(index[1]) = 0
    THEN Raise("RuntimeError")      \* max() of an empty tensor
    ELSE
    LET size == IF IsNone(sparse_size)
                THEN <<MaxPlusOne(index[1]), MaxPlusOne(index[2])>>
                ELSE The(sparse_size)
        idx == LinearKey(size[2], index[1], index[2])
    IN  IF ~CtorAsserts(index, value, size, rowcount, rowptr, colcount,
                        colptr, csr2csc, csc2csr)
        THEN Raise("AssertionError")
        ELSE IF ~is_sorted /\ NeedsSort(idx)
        THEN LET perm == SortPerm(idx)
             IN  [ok |-> TRUE,
                  obj |-> Instance(<<Take(index[1], perm), Take(index[2], perm)>>,
                                   IF IsNone(value) THEN None
                                   ELSE Some(Take(The(value), perm)),
                                   size, rowcount, rowptr, colcount, colptr,
                                   None, None)]
        ELSE [ok |-> TRUE,
              obj |-> Instance(index, value, size, rowcount, rowptr, colcount,
                               colptr, csr2csc, csc2csr)]

-----------------------------------------------------------------------------
(* The cache flag and the derived properties                               *)

is_cache_enabled(flag) == flag

\* rowptr_cpu.rowptr(ids, M): the pointer-construction primitive.  Its code
\* is not part of the source tree; it is modelled by its contract:
\* out[i] = number of ids below i, for i = 0 .. M.
rowptr_primitive(ids, M) == [i \in 1 .. M + 1 |-> Cardinality({k \in 1 .. Len(ids) : ids[k] < i - 1})]

\* ptr[1:] - ptr[:-1]
Diff(ptr) == [i \in 1 .. Len(ptr) - 1 |-> ptr[i + 1] - ptr[i]]

\* scatter_add(torch.ones_like(col), col, dim_size=dim_size): an index outside
\* 0 .. dim_size-1 raises
scatter_add_ones(col, dim_size) ==
    IF \E k \in 1 .. Len(col) : col[k] >= dim_size \/ col[k] < 0
    THEN Raise("RuntimeError")
    ELSE [ok |-> TRUE, val |-> [j \in 1 .. dim_size |-> Cardinality({k \in 1 .. Len(col) : col[k] = j - 1})]]

\* colptr = colcount.new_zeros(n + 1); torch.cumsum(colcount, dim=0, out=colptr[1:])
CumsumFromZero(count) == [i \in 1 .. Len(count) + 1 |-> Sum(SubSeq(count, 1, i - 1))]

\* bool(t) for an optional tensor: None is false, a one-element tensor is its
\* element, any other tensor raises ("Boolean value of Tensor ... is ambiguous")
TensorBool(o) ==
    IF IsNone(o) THEN "False"
    ELSE IF Len(The(o)) # 1 THEN "raise"
    ELSE IF The(o)[1] # 0 THEN "True" ELSE "False"

\* t[perm] (col[self.csr2csc], value[self.csc2csr]): an index outside
\* -len .. len-1 raises, a negative index counts from the end
IndexBy(t, perm) ==
    IF \E j \in 1 .. Len(perm) : perm[j] >= Len(t) \/ perm[j] < 0 - Len(t)
    THEN Raise("IndexError")
    ELSE [ok |-> TRUE, val |-> [j \in 1 .. Len(perm) |-> t[(perm[j] % Len(t)) + 1]]]

Returned(v, s) == [ok |-> TRUE, val |-> v, self |-> s]
Raised(kind, s) == [ok |-> FALSE, err |-> kind, self |-> s]

\* Descriptor reads obj.<key> are Get(s, key, en): the instance s, the flag en.
\* The result carries the instance as the read leaves it.
RECURSIVE Get(_, _, _)

rowptr(s, en) == Returned(rowptr_primitive(s.index[1], s.sparse_size[1]), s)

rowcountFromStart(s, en) == LET r == Get(s, "rowptr", en) IN Returned(DropLast(r.val), r.self)

rowcount(s, en) == LET r == Get(s, "rowptr", en) IN Returned(Diff(r.val), r.self)

colcount(s, en) ==
    IF ~IsNone(s.colptr)
    THEN LET r == Get(s, "colptr", en) IN
         IF r.ok THEN Returned(Diff(r.val), r.self) ELSE r
    ELSE LET c == scatter_add_ones(s.index[2], s.sparse_size[2])
         IN  IF c.ok THEN Returned(c.val, s) ELSE Raised(c.err, s)

csr2cscRowMajor(s, en) == Returned(argsort(LinearKey(s.sparse_size[2], s.index[1], s.index[2])), s)

csr2csc(s, en) == Returned(argsort(LinearKey(s.sparse_size[1], s.index[2], s.index[1])), s)

colptr(s, en) ==
    LET b == TensorBool(s.csr2csc) IN
    IF b = "raise" THEN Raised("RuntimeError", s)
    ELSE IF b = "True"
    THEN LET r == Get(s, "csr2csc", en)
             c == IndexBy(s.index[2], r.val)
         IN  IF c.ok THEN Returned(rowptr_primitive(c.val, s.sparse_size[2]), r.self) ELSE Raised(c.err, r.self)
    ELSE LET r == Get(s, "colcount", en) IN
         IF r.ok THEN Returned(CumsumFromZero(r.val), r.self) ELSE r

csc2csrNoInverse(s, en) == Get(s, "csr2csc", en)

csc2csr(s, en) == LET r == Get(s, "csr2csc", en) IN Returned(argsort(r.val), r.self)

\* the decorated function of each key
Func(s, key, en) ==
    CASE key = "rowcount" -> rowcount(s, en)
      [] key = "rowptr" -> rowptr(s, en)
      [] key = "colcount" -> colcount(s, en)
      [] key = "colptr" -> colptr(s, en)
      [] key = "csr2csc" -> csr2csc(s, en)
      [] key = "csc2csr" -> csc2csr(s, en)

StoreAlways(s, key, en, r) == [r EXCEPT !.self = [r.self EXCEPT ![key] = Some(r.val)]]

\* if is_cache_enabled(): setattr(obj, '_' + name, value)
Store(s, key, en, r) == IF is_cache_enabled(en) THEN [r EXCEPT !.self = [r.self EXCEPT ![key] = Some(r.val)]] ELSE r

\* cached_property.__get__
Get(s, key, en) ==
    IF ~IsNone(s[key]) THEN Returned(The(s[key]), s)
    ELSE LET r == Func(s, key, en) IN
         IF r.ok THEN Store(s, key, en, r) ELSE r

cached_keys(s) == {key \in CacheKeySet : ~IsNone(s[key])}

\* for arg in names: getattr(self, arg)
RECURSIVE GetEach(_, _, _)
GetEach(s, names, en) ==
    IF names = <<>> THEN Returned(<<>>, s)
    ELSE LET r == Get(s, Head(names), en) IN
         IF r.ok THEN GetEach(r.self, Tail(names), en) ELSE r

fill_cache_(s, names, en) == GetEach(s, IF names = <<>> THEN cache_keys ELSE names, en)

clear_cache_(s, names) ==
    LET drop == IF names = <<>> THEN CacheKeySet ELSE Range(names)
    IN  [key \in DOMAIN s |-> IF key \in drop THEN None ELSE s[key]]

-----------------------------------------------------------------------------
(* no_cache                                                                *)

set_cache_enabled(mode) == mode

\* no_cache.__enter__ on guard object g: self.prev = is_cache_enabled();
\* set_cache_enabled(False).  The result is the pair (guards, flag).
no_cache_enter(guards, g, flag) == [prev |-> [guards EXCEPT ![g] = Some(is_cache_enabled(flag))], enabled |-> set_cache_enabled(FALSE)]

\* an __exit__ that enables the flag whatever was saved
no_cache_exit_enabling(guards, g, flag) == [prev |-> guards, enabled |-> set_cache_enabled(TRUE)]

\* no_cache.__exit__ on guard object g: set_cache_enabled(self.prev)
no_cache_exit(guards, g, flag) == [prev |-> guards, enabled |-> set_cache_enabled(The(guards[g]))]

-----------------------------------------------------------------------------
(* coalesce                                                                *)

\* idx > torch.cat([idx.new_full((1, ), -1), idx[:-1]], dim=0)
FirstMask(idx) == [i \in 1 .. Len(idx) |-> idx[i] > Shifted(idx, -1)[i]]

\* mask.cumsum(0) - 1
GroupIds(mask) == [i \in 1 .. Len(mask) |-> Cardinality({k \in 1 .. i : mask[k]}) - 1]

\* src[e] for a 0-based e; a read outside src yields junk
ReadAt(src, e, junk) == IF e >= 0 /\ e < Len(src) THEN src[e + 1] ELSE junk

RECURSIVE SumRange(_, _, _, _)
SumRange(src, from, to, junk) == IF from >= to THEN 0 ELSE ReadAt(src, from, junk) + SumRange(src, from + 1, to, junk)

\* torch_scatter.segment_csr(src, indptr, reduce='add'):
\* out[i] = sum(src[indptr[i] : indptr[i + 1]]), one element per pair of
\* consecutive pointers
segment_csr(src, indptr, junk) == [i \in 1 .. Len(indptr) - 1 |-> SumRange(src, indptr[i], indptr[i + 1], junk)]

\* SparseStorage.is_coalesced
is_coalesced(s) == \A i \in 1 .. Nnz(s) : FirstMask(KeysOf(s.index, s.sparse_size[2]))[i]

\* a coalesce that hands the caches of the receiver to the new instance
coalesce_keeping_caches(s, junk) ==
    LET idx == KeysOf(s.index, s.sparse_size[2])
        mask == FirstMask(idx)
    IN  IF \A i \in 1 .. Len(mask) : mask[i]
        THEN [ok |-> TRUE, same |-> TRUE, obj |-> s]
        ELSE LET index == <<Select(s.index[1], mask), Select(s.index[2], mask)>>
                 value == IF IsNone(s.value) THEN None
                          ELSE Some(segment_csr(GroupIds(mask), The(s.value), junk))
                 r == SparseStorage(index, value, Some(s.sparse_size), s.rowcount, s.rowptr, s.colcount, s.colptr, s.csr2csc, s.csc2csr, TRUE)
             IN  IF r.ok THEN [ok |-> TRUE, same |-> FALSE, obj |-> r.obj]
                 ELSE [ok |-> FALSE, same |-> FALSE, err |-> r.err]

\* SparseStorage.coalesce(reduce='add'); same: the receiver itself is returned
coalesce(s, junk) ==
    LET idx == KeysOf(s.index, s.sparse_size[2])
        mask == FirstMask(idx)
    IN  IF \A i \in 1 .. Len(mask) : mask[i]
        THEN [ok |-> TRUE, same |-> TRUE, obj |-> s]
        ELSE LET index == <<Select(s.index[1], mask), Select(s.index[2], mask)>>
                 value == IF IsNone(s.value) THEN None
                          ELSE Some(segment_csr(GroupIds(mask), The(s.value), junk))
                 r == SparseStorage(index, value, Some(s.sparse_size), None, None, None, None, None, None, TRUE)
             IN  IF r.ok THEN [ok |-> TRUE, same |-> FALSE, obj |-> r.obj]
                 ELSE [ok |-> FALSE, same |-> FALSE, err |-> r.err]

\* the result of coalesce, with the receiver it leaves
CoalesceResult(s, junk) ==
    LET r == coalesce(s, junk)
    IN  IF r.ok THEN [ok |-> TRUE, self |-> s, obj |-> r.obj, same |-> r.same] ELSE Raised(r.err, s)

-----------------------------------------------------------------------------
(* set_value_, set_value, sparse_resize, apply_value(_), apply(_)          *)

\* self.nnz(): the class defines no attribute nnz, the lookup raises
nnz(s) == Raise("AttributeError")

\* torch.full((n, ), device=...): the required fill_value is not passed
torch_full(n) == Raise("TypeError")

layouts == {"coo", "csr", "csc"}

\* get_layout(layout); "None" stands for the unset argument (a warning, 'coo')
get_layout(layout) ==
    LET l == IF layout = "None" THEN "coo" ELSE layout
    IN  IF l \in layouts THEN [ok |-> TRUE, val |-> l] ELSE Raise("AssertionError")

\* a scalar or a tensor passed as the value argument
Scalar(x) == [kind |-> "scalar", x |-> x]
Tensor(t) == [kind |-> "tensor", t |-> t]

\* the conversion without the reordering of a column-major value
ConvertedUnpermuted(s, value, layout, en) ==
    IF value.kind = "scalar"
    THEN LET n == nnz(s) IN
         IF ~n.ok THEN Raised(n.err, s)
         ELSE LET f == torch_full(n.val) IN IF f.ok THEN Returned(f.val, s) ELSE Raised(f.err, s)
    ELSE LET l == get_layout(layout) IN
         IF ~l.ok THEN Raised(l.err, s) ELSE Returned(value.t, s)

\* lines 163-166 and 173-176: the value as it will be stored, and the receiver
\* as the conversion leaves it
Converted(s, value, layout, en) ==
    IF value.kind = "scalar"
    THEN LET n == nnz(s) IN
         IF ~n.ok THEN Raised(n.err, s)
         ELSE LET f == torch_full(n.val) IN IF f.ok THEN Returned(f.val, s) ELSE Raised(f.err, s)
    ELSE LET l == get_layout(layout) IN
         IF ~l.ok THEN Raised(l.err, s)
         ELSE IF l.val = "csc"
         THEN LET r == Get(s, "csc2csr", en) IN
              IF ~r.ok THEN r
              ELSE LET v == IndexBy(value.t, r.val) IN
                   IF v.ok THEN Returned(v.val, r.self) ELSE Raised(v.err, r.self)
         ELSE Returned(value.t, s)

\* set_value_(value, layout): self is the receiver afterwards, obj what is returned
set_value_(s, value, layout, en) ==
    LET c == Converted(s, value, layout, en) IN
    IF ~c.ok THEN c
    ELSE IF Len(c.val) # Nnz(c.self) THEN Raised("AssertionError", c.self)
    ELSE LET t == [c.self EXCEPT !.value = Some(c.val)]
         IN  [ok |-> TRUE, self |-> t, obj |-> t, same |-> TRUE]

\* set_value(value, layout): a new instance, the caches of the receiver carried over
set_value(s, value, layout, en) ==
    LET c == Converted(s, value, layout, en) IN
    IF ~c.ok THEN c
    ELSE IF Len(c.val) # Nnz(c.self) THEN Raised("AssertionError", c.self)
    ELSE LET t == c.self
             r == SparseStorage(t.index, Some(c.val), Some(t.sparse_size), t.rowcount, t.rowptr, t.colcount, t.colptr, t.csr2csc, t.csc2csr, TRUE)
         IN  IF r.ok THEN [ok |-> TRUE, self |-> t, obj |-> r.obj, same |-> FALSE] ELSE Raised(r.err, t)

\* t[:k] of Python: the first k elements, or all but the last -k
SliceTo(t, k) ==
    IF k >= 0 THEN SubSeq(t, 1, IF k < Len(t) THEN k ELSE Len(t))
    ELSE SubSeq(t, 1, IF Len(t) + k > 0 THEN Len(t) + k ELSE 0)

\* x.new_zeros(n) / x.new_full((n, ), v)
Full(n, v) == [i \in 1 .. n |-> v]

\* lines 199-210 and 212-223 for one dimension: the count and the pointer array
\* of the resized instance
ResizedDim(count, ptr, diff, n) ==
    IF diff > 0
    THEN [count |-> IF ~IsNone(count) THEN Some(The(count) \o Full(diff, 0)) ELSE count,
          ptr |-> IF ~IsNone(ptr) THEN Some(The(ptr) \o Full(diff, n)) ELSE ptr]
    ELSE [count |-> IF ~IsNone(count) THEN Some(SliceTo(The(count), -diff)) ELSE count,
          ptr |-> IF ~IsNone(ptr) THEN Some(SliceTo(The(ptr), -diff)) ELSE ptr]

\* sparse_resize(*sizes)
sparse_resize(s, sizes) ==
    IF Len(sizes) # 2 THEN Raised("AssertionError", s)
    ELSE LET n == nnz(s) IN
         IF ~n.ok THEN Raised(n.err, s)
         ELSE LET rows == ResizedDim(s.rowcount, s.rowptr, sizes[1] - s.sparse_size[1], n.val)
                  cols == ResizedDim(s.colcount, s.colptr, sizes[2] - s.sparse_size[2], n.val)
                  r == SparseStorage(s.index, s.value, Some(sizes), rows.count, rows.ptr, cols.count, cols.ptr, s.csr2csc, s.csc2csr, TRUE)
              IN  IF r.ok THEN [ok |-> TRUE, self |-> s, obj |-> r.obj, same |-> FALSE] ELSE Raised(r.err, s)

\* the mappings passed to apply and apply_value: the identity (lambda x: x),
\* a copy (lambda x: x.clone()) and, for values, the negation (lambda x: -x)
MapTensor(func, t) == IF func = "neg" THEN [i \in 1 .. Len(t) |-> 0 - t[i]] ELSE t

\* optional(func, src)
optional(func, o) == IF ~IsNone(o) THEN Some(MapTensor(func, The(o))) ELSE o

\* apply_value_(func)
apply_value_(s, func) ==
    LET t == [s EXCEPT !.value = optional(func, s.value)]
    IN  [ok |-> TRUE, self |-> t, obj |-> t, same |-> TRUE]

\* apply_value(func)
apply_value(s, func) ==
    LET r == SparseStorage(s.index, optional(func, s.value), Some(s.sparse_size), s.rowcount, s.rowptr, s.colcount, s.colptr, s.csr2csc, s.csc2csr, TRUE)
    IN  IF r.ok THEN [ok |-> TRUE, self |-> s, obj |-> r.obj, same |-> FALSE] ELSE Raised(r.err, s)

\* apply_(func): index, value and every materialized cache are mapped in place
apply_(s, func) ==
    LET t == [key \in DOMAIN s |->
                 IF key = "index" THEN <<MapTensor(func, s.index[1]), MapTensor(func, s.index[2])>>
                 ELSE IF key = "sparse_size" THEN s.sparse_size
                 ELSE optional(func, s[key])]
    IN  [ok |-> TRUE, self |-> t, obj |-> t, same |-> TRUE]

\* apply(func)
apply(s, func) ==
    LET r == SparseStorage(<<MapTensor(func, s.index[1]), MapTensor(func, s.index[2])>>, optional(func, s.value), Some(s.sparse_size), optional(func, s.rowcount), optional(func, s.rowptr), optional(func, s.colcount), optional(func, s.colptr), optional(func, s.csr2csc), optional(func, s.csc2csr), TRUE)
    IN  IF r.ok THEN [ok |-> TRUE, self |-> s, obj |-> r.obj, same |-> FALSE] ELSE Raised(r.err, s)

-----------------------------------------------------------------------------
(* Inputs of the constructor                                               *)

NoObj == [absent |-> TRUE]
NoRes == [op |-> "none"]

\* all sequences over S of length at most n
SeqsUpTo(S, n) == UNION {[1 .. k -> S] : k \in 0 .. n}

\* the coordinates of a matrix of the given shape
Coords(shape) == (0 .. shape[1] - 1) \X (0 .. shape[2] - 1)

\* an index tensor (2 x nnz) from a sequence of coordinate pairs
IndexOf(pairs) == <<[i \in 1 .. Len(pairs) |-> pairs[i][1]], [i \in 1 .. Len(pairs) |-> pairs[i][2]]>>

IsNonDecreasing(s) == \A i \in 1 .. Len(s) - 1 : s[i] <= s[i + 1]

\* value arrays that tell the entries apart: entry i carries i
Tags(n) == [i \in 1 .. n |-> i]

\* the column-major permutation a caller computes against the index it passes
CallerCsr2csc(index, num_rows) == argsort(LinearKey(num_rows, index[2], index[1]))

\* Constructor calls: index within the shape, value absent or present, the
\* size given or left to be derived, the permutation pair absent or supplied
\* (computed against the index as passed), is_sorted false or true (true also
\* for an index that is not sorted: the constructor takes the caller's word).
CtorArgs ==
    {[index |-> IndexOf(pairs), value |-> value, sparse_size |-> size, shape |-> shape, perms |-> perms, is_sorted |-> is_sorted] :
        <<pairs, value, size, shape, perms, is_sorted>> \in
            UNION {SeqsUpTo(Coords(sh), MaxNnz) \X {None, Some(0)} \X {None, Some(sh)} \X {sh} \X BOOLEAN \X BOOLEAN : sh \in Shapes}}

ArgValue(a) == IF IsNone(a.value) THEN None ELSE Some(Tags(Len(a.index[2])))

ArgCsr2csc(a) == IF a.perms THEN Some(CallerCsr2csc(a.index, a.shape[1])) ELSE None

ArgCsc2csr(a) == IF a.perms THEN Some(argsort(CallerCsr2csc(a.index, a.shape[1]))) ELSE None

\* the call SparseStorage(index, value, sparse_size, csr2csc=..., csc2csr=..., is_sorted=...)
Construct ==
    /\ obj = NoObj
    /\ res = NoRes
    /\ LET r == SparseStorage(args.index, ArgValue(args), args.sparse_size, None, None, None, None, ArgCsr2csc(args), ArgCsc2csr(args), args.is_sorted)
       IN  /\ res' = [op |-> "init", ok |-> r.ok]
           /\ obj' = IF r.ok THEN r.obj ELSE NoObj
    /\ UNCHANGED <<enabled, args, out, twin, prev, stack, saved, before, pc>>

InitCtor ==
    /\ enabled = TRUE
    /\ args \in CtorArgs
    /\ obj = NoObj
    /\ res = NoRes
    /\ out = <<>>
    /\ twin = NoObj
    /\ prev = <<>>
    /\ stack = <<>>
    /\ saved = <<>>
    /\ before = NoObj
    /\ pc = <<>>

NextCtor == Construct

SpecCtor == InitCtor /\ [][NextCtor]_vars

-----------------------------------------------------------------------------
(* Constructor calls with arbitrary arguments: coordinates within or       *)
(* beyond the declared size, value and derived arrays of any length        *)

\* the coordinates a caller may pass: beyond the rows of every shape, and
\* beyond the columns of all but the widest
AnyCoords == (0 .. 2) \X (0 .. 2)

\* the number of entries of these calls
RawNnz == MaxNnz - 1

\* arrays of zeros as stand-ins for supplied arrays: the constructor looks
\* at their length only
Zeros(n) == [i \in 1 .. n |-> 0]

\* no derived array, or one of the six with a length of 0 .. 4
RawArrays ==
    {[key \in CacheKeySet |-> None]} \cup
    {[key \in CacheKeySet |-> IF key = given THEN Some(Zeros(n)) ELSE None] : given \in CacheKeySet, n \in 0 .. 4}

RawArgs ==
    {[index |-> IndexOf(pairs), value |-> value, sparse_size |-> size, given |-> given, is_sorted |-> is_sorted] :
        <<pairs, value, size, given, is_sorted>> \in
            SeqsUpTo(AnyCoords, RawNnz) \X ({None} \cup {Some(Zeros(n)) : n \in 0 .. RawNnz}) \X ({None} \cup {Some(sh) : sh \in Shapes}) \X RawArrays \X BOOLEAN}

\* the call SparseStorage(index, value, sparse_size, rowcount, ..., is_sorted)
ConstructRaw ==
    /\ obj = NoObj
    /\ res = NoRes
    /\ LET a == args
           r == SparseStorage(a.index, a.value, a.sparse_size, a.given.rowcount, a.given.rowptr, a.given.colcount, a.given.colptr, a.given.csr2csc, a.given.csc2csr, a.is_sorted)
       IN  /\ res' = [op |-> "init", ok |-> r.ok]
           /\ obj' = IF r.ok THEN r.obj ELSE NoObj
    /\ UNCHANGED <<enabled, args, out, twin, prev, stack, saved, before, pc>>

InitRaw ==
    /\ enabled = TRUE
    /\ args \in RawArgs
    /\ obj = NoObj
    /\ res = NoRes
    /\ out = <<>>
    /\ twin = NoObj
    /\ prev = <<>>
    /\ stack = <<>>
    /\ saved = <<>>
    /\ before = NoObj
    /\ pc = <<>>

NextRaw == ConstructRaw

SpecRaw == InitRaw /\ [][NextRaw]_vars

-----------------------------------------------------------------------------
(* One instance: derived-property reads, the flag, fill and clear          *)

\* the instances built from an index within a shape, without value and
\* without caller-supplied caches
PlainStorages ==
    {SparseStorage(IndexOf(pairs), None, Some(sh), None, None, None, None, None, None, FALSE).obj :
        <<pairs, sh>> \in UNION {SeqsUpTo(Coords(shape), MaxNnz) \X {shape} : shape \in Shapes}}

\* the argument lists of fill_cache_ and clear_cache_
NameLists == {names \in SeqsUpTo(CacheKeySet, MaxArgs) : \A i, j \in 1 .. Len(names) : names[i] = names[j] => i = j}

Idle ==
    /\ args = NoObj
    /\ out = <<>>
    /\ twin = NoObj
    /\ prev = <<>>
    /\ stack = <<>>
    /\ saved = <<>>
    /\ before = NoObj
    /\ pc = <<>>

\* value = obj.<key>
Read(key) ==
    /\ LET r == Get(obj, key, enabled)
       IN  /\ obj' = r.self
           /\ res' = [op |-> key, ok |-> r.ok, val |-> IF r.ok THEN r.val ELSE <<>>]
    /\ UNCHANGED <<enabled, args, out, twin, prev, stack, saved, before, pc>>

\* set_cache_enabled(mode)
SetCacheEnabled(mode) ==
    /\ enabled # mode
    /\ enabled' = set_cache_enabled(mode)
    /\ res' = NoRes
    /\ UNCHANGED <<args, obj, out, twin, prev, stack, saved, before, pc>>

\* obj.fill_cache_(*names)
FillCache(names) ==
    /\ LET r == fill_cache_(obj, names, enabled)
       IN  /\ obj' = r.self
           /\ res' = [op |-> "fill_cache_", ok |-> r.ok, names |-> names]
    /\ UNCHANGED <<enabled, args, out, twin, prev, stack, saved, before, pc>>

\* obj.clear_cache_(*names)
ClearCache(names) ==
    /\ obj' = clear_cache_(obj, names)
    /\ res' = [op |-> "clear_cache_", ok |-> TRUE, names |-> names]
    /\ UNCHANGED <<enabled, args, out, twin, prev, stack, saved, before, pc>>

InitCache ==
    /\ enabled = TRUE
    /\ obj \in PlainStorages
    /\ res = NoRes
    /\ Idle

\* reads in any order, under any state of the flag, from an empty cache again
\* after clear_cache_()
NextCache ==
    \/ \E key \in CacheKeySet : Read(key)
    \/ \E mode \in BOOLEAN : SetCacheEnabled(mode)
    \/ ClearCache(<<>>)

SpecCache == InitCache /\ [][NextCache]_vars

\* explicit cache control: fill and clear, named or all, under both flag states
NextFill ==
    \/ \E mode \in BOOLEAN : SetCacheEnabled(mode)
    \/ \E names \in NameLists : FillCache(names)
    \/ \E names \in NameLists : ClearCache(names)

SpecFill == InitCache /\ [][NextFill]_vars

-----------------------------------------------------------------------------
(* Two copies of one instance, read alike: one with the flag enabled       *)
(* throughout (obj), one with the flag disabled throughout (twin)          *)

Outcome(r) == IF r.ok THEN [ok |-> TRUE, val |-> r.val] ELSE [ok |-> FALSE, err |-> r.err]

ReadBoth(key) ==
    /\ LET on == Get(obj, key, TRUE)
           off == Get(twin, key, FALSE)
       IN  /\ obj' = on.self
           /\ twin' = off.self
           /\ res' = [op |-> key, on |-> Outcome(on), off |-> Outcome(off)]
    /\ UNCHANGED <<enabled, args, out, prev, stack, saved, before, pc>>

InitPair ==
    /\ enabled = TRUE
    /\ obj \in PlainStorages
    /\ twin = obj
    /\ res = NoRes
    /\ args = NoObj
    /\ out = <<>>
    /\ prev = <<>>
    /\ stack = <<>>
    /\ saved = <<>>
    /\ before = NoObj
    /\ pc = <<>>

NextPair == \E key \in CacheKeySet : ReadBoth(key)

SpecPair == InitPair /\ [][NextPair]_vars

-----------------------------------------------------------------------------
(* no_cache scopes of one thread, properly nested                          *)

Guards == 1 .. NumGuards

\* with g: ...  (also the decorator form: decorate_no_cache runs "with self")
Enter(g) ==
    /\ Len(stack) < MaxDepth
    /\ LET r == no_cache_enter(prev, g, enabled)
       IN  /\ prev' = r.prev
           /\ enabled' = r.enabled
    /\ stack' = <<g>> \o stack
    /\ saved' = <<enabled>> \o saved
    /\ res' = [op |-> "enter"]
    /\ UNCHANGED <<args, obj, out, twin, before, pc>>

\* the innermost scope is left, by reaching its end or by an exception
\* (__exit__ does the same and returns False in both cases)
Exit(how) ==
    /\ stack # <<>>
    /\ LET r == no_cache_exit(prev, Head(stack), enabled)
       IN  /\ prev' = r.prev
           /\ enabled' = r.enabled
    /\ stack' = Tail(stack)
    /\ saved' = Tail(saved)
    /\ res' = [op |-> "exit", how |-> how, before |-> Head(saved), reentered |-> \E i \in 2 .. Len(stack) : stack[i] = Head(stack)]
    /\ UNCHANGED <<args, obj, out, twin, before, pc>>

InitGuard ==
    /\ enabled \in BOOLEAN
    /\ prev = [g \in Guards |-> None]
    /\ stack = <<>>
    /\ saved = <<>>
    /\ before = NoObj
    /\ pc = <<>>
    /\ res = NoRes
    /\ args = NoObj
    /\ obj = NoObj
    /\ out = <<>>
    /\ twin = NoObj

NextGuard ==
    \/ \E g \in Guards : Enter(g)
    \/ \E how \in {"end", "error"} : Exit(how)

SpecGuard == InitGuard /\ [][NextGuard]_vars

-----------------------------------------------------------------------------
(* Threads without synchronization, each running one no_cache scope on a   *)
(* guard object of its own: thread t uses guard t                          *)

AllDone == \A t \in Guards : pc[t] = "done"

\* thread t, first statement of __enter__: self.prev = is_cache_enabled()
EnterSave(t) ==
    /\ pc[t] = "start"
    /\ prev' = no_cache_enter(prev, t, enabled).prev
    /\ pc' = [pc EXCEPT ![t] = "saved"]
    /\ res' = [op |-> "save", thread |-> t]
    /\ UNCHANGED <<enabled, args, obj, out, twin, stack, saved, before>>

\* thread t, second statement of __enter__: set_cache_enabled(False)
EnterDisable(t) ==
    /\ pc[t] = "saved"
    /\ enabled' = no_cache_enter(prev, t, enabled).enabled
    /\ pc' = [pc EXCEPT ![t] = "inside"]
    /\ res' = [op |-> "disable", thread |-> t]
    /\ UNCHANGED <<args, obj, out, twin, prev, stack, saved, before>>

\* thread t, inside its scope, calls is_cache_enabled() (as every read of a
\* derived property does); out records what each thread saw, once per thread
Observe(t) ==
    /\ pc[t] = "inside"
    /\ \A i \in 1 .. Len(out) : out[i].thread # t
    /\ out' = Append(out, [thread |-> t, flag |-> is_cache_enabled(enabled)])
    /\ res' = [op |-> "observe", thread |-> t]
    /\ UNCHANGED <<enabled, args, obj, twin, prev, stack, saved, before, pc>>

\* thread t leaves its scope: __exit__
ExitScope(t) ==
    /\ pc[t] = "inside"
    /\ LET r == no_cache_exit(prev, t, enabled)
       IN  /\ prev' = r.prev
           /\ enabled' = r.enabled
    /\ pc' = [pc EXCEPT ![t] = "done"]
    /\ res' = [op |-> "exit", thread |-> t]
    /\ UNCHANGED <<args, obj, out, twin, stack, saved, before>>

InitThreads ==
    /\ enabled = TRUE
    /\ prev = [g \in Guards |-> None]
    /\ pc = [t \in Guards |-> "start"]
    /\ stack = <<>>
    /\ saved = <<>>
    /\ before = NoObj
    /\ res = NoRes
    /\ args = NoObj
    /\ obj = NoObj
    /\ out = <<>>
    /\ twin = NoObj

NextThreads ==
    \/ \E t \in Guards : EnterSave(t)
    \/ \E t \in Guards : EnterDisable(t)
    \/ \E t \in Guards : Observe(t)
    \/ \E t \in Guards : ExitScope(t)

SpecThreads == InitThreads /\ [][NextThreads]_vars

-----------------------------------------------------------------------------
(* coalesce, applied to a row-major-sorted instance and then to its result *)

\* what a read outside a tensor's storage may yield
Junk == {0, 5}

\* row-major-sorted instances, with duplicates or not, with values or not
SortedStorages ==
    {SparseStorage(IndexOf(pairs), value, Some(sh), None, None, None, None, None, None, TRUE).obj :
        <<pairs, value, sh>> \in
            {t \in UNION {SeqsUpTo(Coords(shape), MaxNnz) \X ({None} \cup {Some(v) : v \in SeqsUpTo(Values, MaxNnz)}) \X {shape} : shape \in Shapes} :
                /\ IsNonDecreasing(KeysOf(IndexOf(t[1]), t[3][2]))
                /\ IsNone(t[2]) \/ Len(The(t[2])) = Len(t[1])}}

\* the receiver of the next coalesce call: obj, then the result of the last call
Receiver == IF out = <<>> THEN obj ELSE out[Len(out)].obj

Coalesce ==
    /\ Len(out) < 2
    /\ IF out = <<>> THEN TRUE ELSE out[Len(out)].ok
    /\ \E junk \in Junk : out' = Append(out, coalesce(Receiver, junk))
    /\ res' = [op |-> "coalesce"]
    /\ UNCHANGED <<enabled, args, obj, twin, prev, stack, saved, before, pc>>

InitCoalesce ==
    /\ enabled = TRUE
    /\ obj \in SortedStorages
    /\ res = NoRes
    /\ Idle

NextCoalesce == Coalesce

SpecCoalesce == InitCoalesce /\ [][NextCoalesce]_vars

-----------------------------------------------------------------------------
(* sparse_resize, applied to an instance and then to its result            *)

\* the sizes passed to sparse_resize: the shapes, and larger ones
ResizeSizes == Shapes \cup {<<1, 3>>, <<3, 2>>, <<3, 3>>}

\* the derived array `key` of a cache-free instance, computed by its accessor
Fresh(s, key) == Get(clear_cache_(s, <<>>), key, FALSE)

\* the instance s with the count and pointer arrays named in keys supplied
\* to the constructor
WithArrays(s, keys) ==
    LET given(key) == IF key \in keys THEN Some(Fresh(s, key).val) ELSE None
    IN  SparseStorage(s.index, s.value, Some(s.sparse_size), given("rowcount"), given("rowptr"), given("colcount"), given("colptr"), None, None, TRUE).obj

\* instances with any subset of rowcount, rowptr, colcount, colptr materialized
ResizeStorages == {WithArrays(s, keys) : s \in PlainStorages, keys \in SUBSET {"rowcount", "rowptr", "colcount", "colptr"}}

\* the sizes of the calls made so far
SizesSoFar == IF res = NoRes THEN <<>> ELSE res.sizes

\* out.append(receiver.sparse_resize(*sizes))
Resize(sizes) ==
    /\ Len(out) < 2
    /\ IF out = <<>> THEN TRUE ELSE out[Len(out)].ok
    /\ out' = Append(out, sparse_resize(Receiver, sizes))
    /\ res' = [op |-> "sparse_resize", sizes |-> Append(SizesSoFar, sizes)]
    /\ UNCHANGED <<enabled, args, obj, twin, prev, stack, saved, before, pc>>

InitResize ==
    /\ enabled = TRUE
    /\ obj \in ResizeStorages
    /\ res = NoRes
    /\ Idle

NextResize == \E sizes \in ResizeSizes : Resize(sizes)

SpecResize == InitResize /\ [][NextResize]_vars

-----------------------------------------------------------------------------
(* One call of set_value_, set_value, apply, coalesce or sparse_resize on  *)
(* an instance that has been read or not, under either state of the flag   *)

\* instances without caller-supplied caches, without value or with the value
\* array 1, 2, ..., nnz
ValuedStorages ==
    {SparseStorage(s.index, value, Some(s.sparse_size), None, None, None, None, None, None, TRUE).obj :
        <<s, value>> \in {t \in PlainStorages \X ({None} \cup {Some(Tags(n)) : n \in 0 .. MaxNnz}) : IsNone(t[2]) \/ Len(The(t[2])) = Nnz(t[1])}}

Reversed(t) == [i \in 1 .. Len(t) |-> t[Len(t) + 1 - i]]

\* the value arguments for an instance of n entries: a scalar, two sequences
\* of length n, one sequence that is too long
ValueArgs(n) == {Scalar(2), Tensor(Tags(n)), Tensor(Reversed(Tags(n))), Tensor(Tags(n + 1))}

\* the layout arguments; "None" is the default
LayoutArgs == {"None"} \cup layouts

\* the caller holds obj and makes one call on it: before is obj at the call,
\* out the outcome, obj the receiver as the call leaves it
Called(name, r, a) ==
    /\ before' = obj
    /\ obj' = r.self
    /\ out' = <<r>>
    /\ res' = [op |-> name, args |-> a]
    /\ UNCHANGED <<enabled, args, twin, prev, stack, saved, pc>>

\* obj.set_value_(value, layout)
SetValueInPlace(value, layout) == Called("set_value_", set_value_(obj, value, layout, enabled), [value |-> value, layout |-> layout])

\* obj.set_value(value, layout)
SetValue(value, layout) == Called("set_value", set_value(obj, value, layout, enabled), [value |-> value, layout |-> layout])

\* obj.apply_value_(func)
ApplyValueInPlace(func) == Called("apply_value_", apply_value_(obj, func), [func |-> func])

\* obj.apply_value(func)
ApplyValue(func) == Called("apply_value", apply_value(obj, func), [func |-> func])

\* obj.apply_(func)
ApplyInPlace(func) == Called("apply_", apply_(obj, func), [func |-> func])

\* obj.apply(func)
Apply(func) == Called("apply", apply(obj, func), [func |-> func])

\* obj.coalesce()
CoalesceCall == \E junk \in Junk : Called("coalesce", CoalesceResult(obj, junk), [reduce |-> "add"])

\* obj.sparse_resize(*sizes)
SparseResize(sizes) == Called("sparse_resize", sparse_resize(obj, sizes), [sizes |-> sizes])

InitCall ==
    /\ enabled = TRUE
    /\ obj \in ValuedStorages
    /\ res = NoRes
    /\ Idle

\* the flag is set or not, the instance is read or not, then set_value_ or
\* set_value is called
NextSetValue ==
    \/ \E mode \in BOOLEAN : res = NoRes /\ out = <<>> /\ SetCacheEnabled(mode)
    \/ \E key \in CacheKeySet : res = NoRes /\ out = <<>> /\ Read(key)
    \/ \E value \in ValueArgs(Nnz(obj)), layout \in LayoutArgs : out = <<>> /\ SetValueInPlace(value, layout)
    \/ \E value \in ValueArgs(Nnz(obj)), layout \in LayoutArgs : out = <<>> /\ SetValue(value, layout)

SpecSetValue == InitCall /\ [][NextSetValue]_vars

\* the flag is set or not, the instance is read or not, then one of the
\* operations that return a new instance is called
NextPure ==
    \/ \E mode \in BOOLEAN : res = NoRes /\ out = <<>> /\ SetCacheEnabled(mode)
    \/ \E key \in CacheKeySet : res = NoRes /\ out = <<>> /\ Read(key)
    \/ \E value \in ValueArgs(Nnz(obj)), layout \in LayoutArgs : out = <<>> /\ SetValue(value, layout)
    \/ \E func \in {"identity", "clone"} : out = <<>> /\ Apply(func)
    \/ out = <<>> /\ CoalesceCall
    \/ \E sizes \in ResizeSizes : out = <<>> /\ SparseResize(sizes)

\* the instance s with the permutations named in keys supplied to the
\* constructor, as a caller computes them for the sorted index
WithPerms(s, keys) ==
    LET given(key) == IF key \in keys THEN Some(Fresh(s, key).val) ELSE None
    IN  SparseStorage(s.index, s.value, Some(s.sparse_size), None, None, None, None, given("csr2csc"), given("csc2csr"), TRUE).obj

\* instances that hold neither, one or both of csr2csc and csc2csr from the start
PureStorages == {WithPerms(s, keys) : s \in ValuedStorages, keys \in SUBSET {"csr2csc", "csc2csr"}}

InitPure ==
    /\ enabled = TRUE
    /\ obj \in PureStorages
    /\ res = NoRes
    /\ Idle

SpecPure == InitPure /\ [][NextPure]_vars

-----------------------------------------------------------------------------
(* Any sequence of calls, the caller going on with the receiver or with    *)
(* the instance a call returned                                            *)

\* x = obj.<call>: obj becomes the receiver as the call left it, or the
\* instance the call returned (a read returns an array, not an instance)
Chained(name, r) ==
    /\ obj' \in {r.self} \cup (IF r.ok /\ "obj" \in DOMAIN r THEN {r.obj} ELSE {})
    /\ res' = [op |-> name]
    /\ UNCHANGED <<enabled, args, out, twin, prev, stack, saved, before, pc>>

\* sizes that shrink no dimension of s and grow at least one
Growing(s) == {sizes \in ResizeSizes : sizes[1] >= s.sparse_size[1] /\ sizes[2] >= s.sparse_size[2] /\ sizes # s.sparse_size}

\* no name (all caches) or one name
OneName == {<<>>} \cup {<<key>> : key \in CacheKeySet}

NextCoherence ==
    \/ \E key \in CacheKeySet : Chained("read", Get(obj, key, enabled))
    \/ \E mode \in BOOLEAN : SetCacheEnabled(mode)
    \/ \E names \in OneName : Chained("fill_cache_", fill_cache_(obj, names, enabled))
    \/ \E names \in OneName : Chained("clear_cache_", Returned(<<>>, clear_cache_(obj, names)))
    \/ \E layout \in LayoutArgs : Chained("set_value_", set_value_(obj, Tensor(Tags(Nnz(obj))), layout, enabled))
    \/ \E layout \in LayoutArgs : Chained("set_value", set_value(obj, Tensor(Tags(Nnz(obj))), layout, enabled))
    \/ \E func \in {"identity", "clone"} : Chained("apply_value", apply_value(obj, func))
    \/ \E func \in {"identity", "clone"} : Chained("apply_", apply_(obj, func))
    \/ \E func \in {"identity", "clone"} : Chained("apply", apply(obj, func))
    \/ \E junk \in Junk : Chained("coalesce", CoalesceResult(obj, junk))
    \/ \E sizes \in Growing(obj) : Chained("sparse_resize", sparse_resize(obj, sizes))

\* the instances of the square shape
SquareStorages == {s \in PlainStorages : s.sparse_size = <<2, 2>>}

InitCoherence ==
    /\ enabled = TRUE
    /\ obj \in SquareStorages
    /\ res = NoRes
    /\ Idle

SpecCoherence == InitCoherence /\ [][NextCoherence]_vars

-----------------------------------------------------------------------------
(* C1: construction with is_sorted = false                                 *)

PermsOf(n) == {p \in [1 .. n -> 1 .. n] : \A i, j \in 1 .. n : p[i] = p[j] => i = j}

\* the entries of o are the entries of the call, each value with its own pair
IsRearrangement(a, o) ==
    /\ Nnz(o) = Len(a.index[2])
    /\ IsNone(o.value) <=> IsNone(a.value)
    /\ \E p \in PermsOf(Nnz(o)) :
        \A i \in 1 .. Nnz(o) :
            /\ o.index[1][i] = a.index[1][p[i]]
            /\ o.index[2][i] = a.index[2][p[i]]
            /\ ~IsNone(o.value) => The(o.value)[i] = ArgValue(a)[1][p[i]]

\* the constructor call has a sparse_size to lie within: given, or derived
\* from a non-empty index
HasSize(a) == ~IsNone(a.sparse_size) \/ Len(a.index[2]) > 0

\* C1: for every index within sparse_size, with or without value, construction
\* with is_sorted = false succeeds with non-decreasing keys row*num_cols+col
\* and with entries that are a rearrangement of the input entries, each value
\* still attached to its own coordinate pair.
C1_SortedRearrangement ==
    (res.op = "init" /\ ~args.is_sorted /\ HasSize(args)) =>
        /\ res.ok
        /\ IsNonDecreasing(KeysOf(obj.index, obj.sparse_size[2]))
        /\ IsRearrangement(args, obj)

\* an unsorted input with values has been constructed (and so reordered)
C1_Witness ==
    /\ res.op = "init" /\ res.ok /\ ~args.is_sorted
    /\ ~IsNone(args.value)
    /\ Len(args.index[2]) = 3
    /\ ~IsNonDecreasing(KeysOf(args.index, args.shape[2]))
    /\ obj.index # args.index

-----------------------------------------------------------------------------
(* C2: pointers and counts returned by the accessors                       *)

\* ptr[0] = 0, ptr[n] = nnz, ptr[i+1] - ptr[i] = count[i]
PtrCountOK(ptr, count, n, total) ==
    /\ Len(ptr) = n + 1
    /\ Len(count) = n
    /\ ptr[1] = 0
    /\ ptr[n + 1] = total
    /\ \A i \in 1 .. n : ptr[i + 1] - ptr[i] = count[i]

\* the pointer and the count of one dimension, read one after the other in
\* the state at hand, in the order given
ReadPairOK(s, en, first, second, dim) ==
    LET r1 == Get(s, first, en)
        r2 == Get(r1.self, second, en)
        ptr == IF first \in {"rowptr", "colptr"} THEN r1 ELSE r2
        count == IF first \in {"rowptr", "colptr"} THEN r2 ELSE r1
    IN  (r1.ok /\ r2.ok) => PtrCountOK(ptr.val, count.val, s.sparse_size[dim], Nnz(s))

\* the array last returned, with its counterpart read next
LastReadOK(ptrKey, countKey, dim) ==
    /\ (res.op = ptrKey /\ res.ok) =>
        LET c == Get(obj, countKey, enabled)
        IN  c.ok => PtrCountOK(res.val, c.val, obj.sparse_size[dim], Nnz(obj))
    /\ (res.op = countKey /\ res.ok) =>
        LET q == Get(obj, ptrKey, enabled)
        IN  q.ok => PtrCountOK(q.val, res.val, obj.sparse_size[dim], Nnz(obj))

\* C2: for a storage built without caller-supplied caches, after any order of
\* derived-property reads and under any state of the cache flag, every rowptr
\* and rowcount the accessors return satisfy rowptr[0] = 0,
\* rowptr[num_rows] = nnz and rowptr[i+1] - rowptr[i] = rowcount[i], and every
\* colptr and colcount returned satisfy the same with num_cols.
C2_PointersMatchCounts ==
    /\ ReadPairOK(obj, enabled, "rowptr", "rowcount", 1)
    /\ ReadPairOK(obj, enabled, "rowcount", "rowptr", 1)
    /\ ReadPairOK(obj, enabled, "colptr", "colcount", 2)
    /\ ReadPairOK(obj, enabled, "colcount", "colptr", 2)
    /\ LastReadOK("rowptr", "rowcount", 1)
    /\ LastReadOK("colptr", "colcount", 2)

\* colptr was just returned for three entries, after the row arrays were read
\* and memoized
C2_Witness ==
    /\ res.op = "colptr" /\ res.ok
    /\ Nnz(obj) = 3
    /\ ~IsNone(obj.rowptr) /\ ~IsNone(obj.rowcount)
    /\ ~IsNone(obj.colcount)

-----------------------------------------------------------------------------
(* C3: csr2csc and csc2csr are mutually inverse permutations               *)

IsPermutation(p, n) == Len(p) = n /\ Range(p) = 0 .. n - 1

\* q[p[k]] = k for every k (0-based)
Undoes(q, p) == \A k \in 1 .. Len(p) : q[p[k] + 1] = k - 1

PermPairOK(p, q, n) == IsPermutation(p, n) /\ IsPermutation(q, n) /\ Undoes(q, p)

\* C3: the arrays the csr2csc and csc2csr accessors return are permutations
\* of 0..nnz-1 with csc2csr[csr2csc[k]] = k for every k, whether csr2csc was
\* memoized before csc2csr was read or is recomputed inside it.
C3_MutualInverse ==
    /\ LET a == Get(obj, "csr2csc", enabled)
           b == Get(a.self, "csc2csr", enabled)
       IN  PermPairOK(a.val, b.val, Nnz(obj))
    /\ LET b == Get(obj, "csc2csr", enabled)
           a == Get(b.self, "csr2csc", enabled)
       IN  PermPairOK(a.val, b.val, Nnz(obj))
    /\ res.op = "csc2csr" => PermPairOK(Get(obj, "csr2csc", enabled).val, res.val, Nnz(obj))
    /\ res.op = "csr2csc" => PermPairOK(res.val, Get(obj, "csc2csr", enabled).val, Nnz(obj))

\* csc2csr was just returned with the flag disabled and csr2csc not memoized
\* (so recomputed inside), for a permutation that is not its own inverse
C3_Witness ==
    /\ res.op = "csc2csr" /\ res.ok
    /\ ~enabled /\ IsNone(obj.csr2csc)
    /\ ~Undoes(res.val, res.val)

-----------------------------------------------------------------------------
(* C4: which way csr2csc maps                                              *)

DistinctCoords(o) == \A i, j \in 1 .. Nnz(o) : (o.index[1][i] = o.index[1][j] /\ o.index[2][i] = o.index[2][j]) => i = j

\* whether entry j comes before entry k in column-major order
ColumnMajorBefore(o, j, k) == o.index[2][j] < o.index[2][k] \/ (o.index[2][j] = o.index[2][k] /\ o.index[1][j] < o.index[1][k])

\* the 0-based position in column-major (CSC) order of the k-th entry of the
\* row-major (CSR) order, k counted from 1
CscPosition(o, k) == Cardinality({j \in 1 .. Nnz(o) : ColumnMajorBefore(o, j, k)})

\* the number of entries that precede entry k in column-major order, entries
\* of one coordinate in their stored order
EntryRank(o, k) == Cardinality({j \in 1 .. Nnz(o) : ColumnMajorBefore(o, j, k) \/ (o.index[1][j] = o.index[1][k] /\ o.index[2][j] = o.index[2][k] /\ j < k)})

\* C4 as stated: for distinct coordinates, csr2csc[k] is the position in
\* column-major order of the k-th entry of the row-major order.
C4_Csr2cscGivesCscPosition ==
    (res.op = "csr2csc" /\ res.ok /\ DistinctCoords(obj)) =>
        \A k \in 1 .. Nnz(obj) : res.val[k] = CscPosition(obj, k)

\* C4 amended: for distinct coordinates, csr2csc[j] is the position in
\* row-major order of the j-th entry of the column-major order; it is csc2csr[k]
\* that is the position in column-major order of the k-th row-major entry.
C4_Csr2cscGivesCsrPosition ==
    /\ (res.op = "csr2csc" /\ res.ok /\ DistinctCoords(obj)) =>
        \A j \in 1 .. Nnz(obj) : CscPosition(obj, res.val[j] + 1) = j - 1
    /\ (res.op = "csc2csr" /\ res.ok /\ DistinctCoords(obj)) =>
        \A k \in 1 .. Nnz(obj) : res.val[k] = CscPosition(obj, k)

\* csr2csc was just returned for distinct coordinates whose two orders differ
\* by a permutation that is not its own inverse
C4_Witness ==
    /\ res.op = "csr2csc" /\ res.ok
    /\ DistinctCoords(obj)
    /\ ~Undoes(res.val, res.val)

-----------------------------------------------------------------------------
(* C5: with the flag disabled a read stores nothing                        *)

CacheFields(o) == [key \in CacheKeySet |-> o[key]]

\* C5: while the cache flag is disabled, reading a derived property that is
\* absent leaves all six cache fields as they were, the properties read
\* internally on the way included.
C5_DisabledReadStoresNothing ==
    [][(~enabled /\ \E key \in CacheKeySet : IsNone(obj[key]) /\ Read(key))
          => CacheFields(obj') = CacheFields(obj)]_vars

\* csc2csr was just read with the flag disabled; it and csr2csc, read inside
\* it, are still absent, so the next read computes both again
C5_Witness ==
    /\ res.op = "csc2csr" /\ res.ok
    /\ ~enabled
    /\ Nnz(obj) = 3
    /\ IsNone(obj.csc2csr) /\ IsNone(obj.csr2csc)

-----------------------------------------------------------------------------
(* C6: the same reads with the flag enabled and with the flag disabled     *)

\* C6: two copies of a storage, one read with the flag enabled throughout and
\* one with it disabled throughout, give the same outcome for each read of an
\* identical sequence of reads (the same array, or an error in both).
C6_SameOutcomes == res.op \in CacheKeySet => res.on = res.off

-----------------------------------------------------------------------------
(* C7: nested no_cache scopes                                              *)

\* C7: in properly nested scopes, on distinct or re-entered guard objects, the
\* flag is disabled inside every scope, and after each exit it has the value
\* it had just before the matching entry.
C7_ExitRestores ==
    /\ stack # <<>> => ~enabled
    /\ res.op = "exit" => enabled = res.before

-----------------------------------------------------------------------------
(* C8: fill_cache_ and clear_cache_                                        *)

Named(names) == IF names = <<>> THEN CacheKeySet ELSE Range(names)

\* C8: after fill_cache_ every named array (all six when none is named) is
\* materialized whether the flag is enabled or disabled, and after
\* clear_cache_ every named array (all six when none is named) is absent.
C8_FillIndependentOfFlag ==
    /\ res.op = "fill_cache_" => Named(res.names) \subseteq cached_keys(obj)
    /\ res.op = "clear_cache_" => Named(res.names) \cap cached_keys(obj) = {}

-----------------------------------------------------------------------------
(* C9, C10: coalesce                                                       *)

SameEntries(a, b) == a.index = b.index /\ a.value = b.value

\* C9: coalesce(coalesce(S)) has the coordinates and values of coalesce(S);
\* coalesce of an instance without duplicates returns that very instance, so
\* the second call returns the object produced by the first.
C9_Idempotent ==
    /\ Len(out) >= 1 => out[1].ok
    /\ (Len(out) >= 1 /\ is_coalesced(obj)) => out[1].same
    /\ Len(out) = 2 => (out[2].ok /\ out[2].same /\ SameEntries(out[2].obj, out[1].obj))

\* the positions of the source entries that hold the first occurrence of a
\* coordinate pair, ascending
FirstOccurrences(o) == {i \in 1 .. Nnz(o) : \A j \in 1 .. i - 1 : o.index[1][j] # o.index[1][i] \/ o.index[2][j] # o.index[2][i]}

\* the sum of the values of all entries of o at the coordinates of entry i
RECURSIVE SumWhere(_, _, _)
SumWhere(o, i, k) ==
    IF k = 0 THEN 0
    ELSE (IF o.index[1][k] = o.index[1][i] /\ o.index[2][k] = o.index[2][i] THEN The(o.value)[k] ELSE 0) + SumWhere(o, i, k - 1)

\* C10: coalesce returns one entry per distinct (row, col) of the source, in
\* row-major order, whose value is the sum of the values of the source entries
\* at that coordinate; without a value array, the deduplicated coordinates.
C10_SumPerCoordinate ==
    Len(out) >= 1 =>
        /\ out[1].ok
        /\ Nnz(out[1].obj) = Cardinality(FirstOccurrences(obj))
        /\ \A i \in FirstOccurrences(obj) :
            LET at == Cardinality({j \in FirstOccurrences(obj) : j <= i})
            IN  /\ out[1].obj.index[1][at] = obj.index[1][i]
                /\ out[1].obj.index[2][at] = obj.index[2][i]
                /\ ~IsNone(obj.value) => The(out[1].obj.value)[at] = SumWhere(obj, i, Nnz(obj))
        /\ IsNone(obj.value) => IsNone(out[1].obj.value)

-----------------------------------------------------------------------------
(* C11, C12: sparse_resize                                                 *)

CountsAndPointers(o) == [key \in {"rowcount", "rowptr", "colcount", "colptr"} |-> o[key]]

\* sizes leaves room for every entry of o
Covers(sizes, o) == \A i \in 1 .. Nnz(o) : o.index[1][i] < sizes[1] /\ o.index[2][i] < sizes[2]

\* C11: sparse_resize to other dimensions that cut off no entry, followed by
\* sparse_resize back to the original dimensions, succeeds both times and
\* yields the original materialized count and pointer arrays exactly.
C11_RoundTripRestores ==
    (out # <<>> /\ Covers(res.sizes[1], obj) /\ res.sizes[1] # obj.sparse_size) =>
        /\ out[1].ok
        /\ (Len(out) = 2 /\ res.sizes[2] = obj.sparse_size) =>
            /\ out[2].ok
            /\ CountsAndPointers(out[2].obj) = CountsAndPointers(obj)

\* the array without its last n elements
WithoutLast(o, n) == IF IsNone(o) THEN o ELSE Some(SubSeq(The(o), 1, Len(The(o)) - n))

\* C12: a dimension that does not grow (new size d' <= d, d' = d included)
\* gets the source's count and pointer arrays without their last d - d'
\* elements; an unchanged dimension keeps both arrays unchanged.
C12_ShrinkTruncatesTail ==
    (Len(out) = 1 /\ Covers(res.sizes[1], obj)) =>
        /\ out[1].ok
        /\ res.sizes[1][1] <= obj.sparse_size[1] =>
            /\ out[1].obj.rowcount = WithoutLast(obj.rowcount, obj.sparse_size[1] - res.sizes[1][1])
            /\ out[1].obj.rowptr = WithoutLast(obj.rowptr, obj.sparse_size[1] - res.sizes[1][1])
        /\ res.sizes[1][2] <= obj.sparse_size[2] =>
            /\ out[1].obj.colcount = WithoutLast(obj.colcount, obj.sparse_size[2] - res.sizes[1][2])
            /\ out[1].obj.colptr = WithoutLast(obj.colptr, obj.sparse_size[2] - res.sizes[1][2])

-----------------------------------------------------------------------------
(* C13, C14: set_value_ and set_value                                      *)

SetValueCalled == res.op \in {"set_value_", "set_value"}

\* C13: set_value_ / set_value with a scalar succeeds and leaves the value
\* array of the (returned) instance with nnz entries, all equal to the scalar.
C13_ScalarFills ==
    (SetValueCalled /\ res.args.value.kind = "scalar") =>
        /\ out[1].ok
        /\ out[1].obj.value = Some(Full(Nnz(before), res.args.value.x))

\* the value array the (returned) instance holds after the call
StoredValue == The(out[1].obj.value)

\* C14: for distinct coordinates and a sequence v of length nnz, with layout
\* 'csc' the stored value at row-major position k is the element of v at the
\* column-major position of the k-th entry; with 'coo', 'csr' or no layout
\* the sequence is stored as given.
C14_CscValueAlignedToRowMajor ==
    (SetValueCalled /\ res.args.value.kind = "tensor" /\ Len(res.args.value.t) = Nnz(before) /\ DistinctCoords(before)) =>
        /\ out[1].ok
        /\ Len(StoredValue) = Nnz(before)
        /\ IF res.args.layout = "csc"
           THEN \A k \in 1 .. Nnz(before) : StoredValue[k] = res.args.value.t[CscPosition(before, k) + 1]
           ELSE StoredValue = res.args.value.t

\* a column-major sequence 1,2,3 has been stored as 2,3,1: the permutation is
\* not its own inverse
C14_Witness ==
    /\ res.op = "set_value" /\ res.args.layout = "csc"
    /\ res.args.value = Tensor(<<1, 2, 3>>)
    /\ DistinctCoords(before)
    /\ out[1].ok
    /\ StoredValue = <<2, 3, 1>>

-----------------------------------------------------------------------------
(* C15: what the operations that return a new instance do to their source  *)

PureCalled == res.op \in {"apply", "coalesce", "sparse_resize", "set_value"}

\* C15: after apply, coalesce, sparse_resize or set_value (any layout, the
\* flag enabled or disabled) the source's index, value, sparse_size and six
\* cache fields are exactly what they were before the call.
C15_SourceUnchanged == PureCalled => obj = before

\* the call was set_value with a sequence tagged 'csc' while caching is enabled
CscSetValueCached == res.op = "set_value" /\ res.args.value.kind = "tensor" /\ res.args.layout = "csc" /\ enabled

\* p is the csr2csc and q the csc2csr that the index of o determines
IsCsr2cscOf(p, o) == Len(p) = Nnz(o) /\ \A k \in 1 .. Nnz(o) : p[EntryRank(o, k) + 1] = k - 1
IsCsc2csrOf(q, o) == Len(q) = Nnz(o) /\ \A k \in 1 .. Nnz(o) : q[k] = EntryRank(o, k)

\* C15 as the code has it: index, value, sparse_size and the count and pointer
\* caches of the source are unchanged, and so are csr2csc and csc2csr, except
\* for set_value with a sequence tagged 'csc' under an enabled flag on a
\* source that does not hold csc2csr: that call materializes csc2csr on the
\* source, and csr2csc too if the source did not hold it.  A source that
\* holds csc2csr is left exactly as it was (csr2csc, if absent, stays absent).
C15_SourceUnchangedUpToPermCaches ==
    PureCalled =>
        /\ \A key \in DOMAIN before \ {"csr2csc", "csc2csr"} : obj[key] = before[key]
        /\ IF CscSetValueCached /\ IsNone(before.csc2csr)
           THEN /\ ~IsNone(obj.csc2csr) /\ IsCsc2csrOf(The(obj.csc2csr), before)
                /\ IF IsNone(before.csr2csc)
                   THEN ~IsNone(obj.csr2csc) /\ IsCsr2cscOf(The(obj.csr2csc), before)
                   ELSE obj.csr2csc = before.csr2csc
           ELSE obj.csr2csc = before.csr2csc /\ obj.csc2csr = before.csc2csr

\* set_value with layout 'csc' has returned a new instance and left both
\* permutations on a source that held neither
C15_Witness ==
    /\ CscSetValueCached
    /\ out[1].ok
    /\ Nnz(before) = 3
    /\ ~IsNone(before.value)
    /\ IsNone(before.csr2csc) /\ IsNone(before.csc2csr)
    /\ ~IsNone(obj.csr2csc) /\ ~IsNone(obj.csc2csr)

-----------------------------------------------------------------------------
(* C16: what the constructor rejects                                       *)

\* some coordinate lies outside the declared sparse_size
OutOfRange(a) ==
    /\ ~IsNone(a.sparse_size)
    /\ \E i \in 1 .. Len(a.index[2]) : a.index[1][i] >= The(a.sparse_size)[1] \/ a.index[2][i] >= The(a.sparse_size)[2]

\* the length a supplied array must have, given nnz and the declared size
DueLength(key, n, size) ==
    CASE key = "rowcount" -> size[1]
      [] key = "rowptr" -> size[1] + 1
      [] key = "colcount" -> size[2]
      [] key = "colptr" -> size[2] + 1
      [] OTHER -> n

\* value or a supplied derived array has a length that does not match
WrongLength(a) ==
    \/ ~IsNone(a.value) /\ Len(The(a.value)) # Len(a.index[2])
    \/ /\ ~IsNone(a.sparse_size)
       /\ \E key \in CacheKeySet : ~IsNone(a.given[key]) /\ Len(The(a.given[key])) # DueLength(key, Len(a.index[2]), The(a.sparse_size))

\* C16: whenever a coordinate is out of range for the declared sparse_size, or
\* value or a supplied derived array has a wrong length, the constructor
\* reports an error and produces no instance.
C16_RejectsStructuralViolations ==
    (res.op = "init" /\ (OutOfRange(args) \/ WrongLength(args))) => (~res.ok /\ obj = NoObj)

-----------------------------------------------------------------------------
(* C17: the colptr accessor                                                *)

\* colptr[j] = number of entries with column < j, for j = 0 .. num_cols
ColumnPointers(o) == [j \in 1 .. o.sparse_size[2] + 1 |-> Cardinality({i \in 1 .. Nnz(o) : o.index[2][i] < j - 1})]

\* C17: a read of colptr returns the column pointer array, whether csr2csc is
\* materialized on the instance or not; it never fails.
C17_ColptrReadCorrect == res.op = "colptr" => (res.ok /\ res.val = ColumnPointers(obj))

-----------------------------------------------------------------------------
(* C18: caller-supplied csr2csc / csc2csr at construction                  *)

\* the constructor call has to reorder: is_sorted = false and keys that descend
Reorders(a, num_cols) == ~a.is_sorted /\ ~IsNonDecreasing(KeysOf(a.index, num_cols))

\* C18: a construction that is given csr2csc and csc2csr succeeds; if
\* is_sorted = false and the keys row*num_cols+col of the input are not
\* non-decreasing, the instance has the entries in sorted order and both
\* permutation caches absent; if the input is non-decreasing already, or
\* is_sorted = true, the instance has the index and both caches as given.
C18_PermsDiscardedIffReordered ==
    (res.op = "init" /\ args.perms /\ HasSize(args)) =>
        /\ res.ok
        /\ IF Reorders(args, obj.sparse_size[2])
           THEN /\ IsNone(obj.csr2csc) /\ IsNone(obj.csc2csr)
                /\ obj.index # args.index
                /\ IsNonDecreasing(KeysOf(obj.index, obj.sparse_size[2]))
           ELSE /\ obj.csr2csc = ArgCsr2csc(args) /\ obj.csc2csr = ArgCsc2csr(args)
                /\ obj.index = args.index

\* [(1,0),(0,1)] with size (2,2) and both permutations supplied has become
\* [(0,1),(1,0)] without permutation caches
C18_Witness ==
    /\ res.op = "init" /\ res.ok /\ args.perms /\ ~args.is_sorted
    /\ args.index = <<<<1, 0>>, <<0, 1>>>> /\ args.sparse_size = Some(<<2, 2>>)
    /\ obj.index = <<<<0, 1>>, <<1, 0>>>>
    /\ IsNone(obj.csr2csc) /\ IsNone(obj.csc2csr)

-----------------------------------------------------------------------------
(* C19: no_cache scopes of concurrent threads                              *)

\* C19: with unsynchronized threads, each in one scope on its own guard, the
\* flag after the last exit is whatever the last thread to exit had saved
\* (not necessarily the initial value), and a thread that sees the flag
\* enabled inside its scope sees the exit of another thread; so there are
\* interleavings that leave the flag disabled after every scope has exited and
\* interleavings in which a thread sees the flag enabled inside its scope.
C19_LastExitDecides ==
    /\ res.op = "exit" => enabled = The(prev[res.thread])
    /\ \A i \in 1 .. Len(out) : out[i].flag => \E u \in Guards \ {out[i].thread} : pc[u] = "done"

\* every scope has exited and the flag, enabled at the start, is left
\* disabled; one thread has seen the flag enabled inside its scope
C19_Witness ==
    /\ AllDone
    /\ ~enabled
    /\ \E i \in 1 .. Len(out) : out[i].flag

-----------------------------------------------------------------------------
(* C20: cache coherence                                                    *)

\* the count and pointer arrays of dimension dim, from the index alone
CountsOf(o, dim) == [i \in 1 .. o.sparse_size[dim] |-> Cardinality({k \in 1 .. Nnz(o) : o.index[dim][k] = i - 1})]
PointersOf(o, dim) == [i \in 1 .. o.sparse_size[dim] + 1 |-> Cardinality({k \in 1 .. Nnz(o) : o.index[dim][k] < i - 1})]

\* every materialized derived array of o is the one its index and
\* sparse_size determine
Coherent(o) ==
    /\ IsNone(o.rowcount) \/ The(o.rowcount) = CountsOf(o, 1)
    /\ IsNone(o.rowptr) \/ The(o.rowptr) = PointersOf(o, 1)
    /\ IsNone(o.colcount) \/ The(o.colcount) = CountsOf(o, 2)
    /\ IsNone(o.colptr) \/ The(o.colptr) = PointersOf(o, 2)
    /\ IsNone(o.csr2csc) \/ (Len(The(o.csr2csc)) = Nnz(o) /\ \A k \in 1 .. Nnz(o) : The(o.csr2csc)[EntryRank(o, k) + 1] = k - 1)
    /\ IsNone(o.csc2csr) \/ (Len(The(o.csc2csr)) = Nnz(o) /\ \A k \in 1 .. Nnz(o) : The(o.csc2csr)[k] = EntryRank(o, k))

\* C20: starting from an instance without caller-supplied caches, after any
\* sequence of reads, fill_cache_, clear_cache_, flag toggles, set_value(_)
\* with a sequence, apply_value, apply(_) with an identity or copy, coalesce
\* and growing sparse_resize, every materialized derived array of the instance
\* at hand (the original or one a call returned) is the array computed from
\* that instance's own index and sparse_size.
C20_CachesCoherent == Coherent(obj)

\* the instance at hand came out of a coalesce of an instance that had been
\* given a value (its value is no arrangement of the sequence 1, 2 that
\* set_value stores, in any layout), and all six
\* derived arrays have been materialized on it
C20_Witness ==
    /\ res.op = "read"
    /\ Nnz(obj) = 2
    /\ ~IsNone(obj.value) /\ Range(The(obj.value)) # {1, 2}
    /\ \A key \in CacheKeySet : ~IsNone(obj[key])

====
